---- MODULE Spec2Model ----
(***************************************************************************)
(* Fraud Detection API (api.py, basemodel.py): the inference request       *)
(* pipeline.  A request body is validated into InputData, its timestamp is *)
(* decomposed by transform_input, the features are reordered to the        *)
(* model's feature_names_in_, the model's predict and predict_proba are    *)
(* called and the result is shaped into a PredictionResponse.              *)
(*                                                                         *)
(* Conventions of the model:                                               *)
(*  - a timestamp TEXT is the sequence of its digit groups,                *)
(*    "2025-12-04T14:30:00" is <<2025, 12, 4, 14, 30, 0>>; a seventh group *)
(*    is a UTC offset in hours ("+02:00" is 2); a text that is no          *)
(*    date-time at all has fewer than three groups;                        *)
(*  - lat and long are fixed-point, scaled by 10^4 (39.7817 is 397817);    *)
(*  - probabilities are percentages (0.92 is 92);                          *)
(*  - Python's None is the record None.                                    *)
(***************************************************************************)
EXTENDS Integers, Sequences, FiniteSets

\* ------------------------------------------------------------------ bounds

\* Number of request workers that may run handlers concurrently.
NumClients == 2

\* Longest feature order enumerated over FeatureNameSample.
MaxOrderLen == 2

\* ------------------------------------------------------- program constants

HTTP_200_OK == 200
HTTP_400_BAD_REQUEST == 400
HTTP_422_UNPROCESSABLE_ENTITY == 422
HTTP_503_SERVICE_UNAVAILABLE == 503

None == [kind |-> "None"]

\* ------------------------------------------------------------------ schema

\* basemodel.py InputData: the ten required fields of a request body.
InputFields ==
    {"merchant", "category", "city", "state", "job", "amt", "lat", "long",
     "city_pop", "trans_date_trans_time"}

\* The fields transform_input copies through unchanged.
CopiedFields ==
    {"merchant", "category", "city", "state", "job", "amt", "lat", "long",
     "city_pop"}

\* basemodel.py ProcessedInputData: the thirteen fields, in declaration order.
ProcessedFieldOrder ==
    <<"merchant", "category", "city", "state", "job", "amt", "lat", "long",
      "city_pop", "trans_hour", "trans_day", "trans_month", "trans_weekday">>

ProcessedFields == {ProcessedFieldOrder[i] : i \in 1..Len(ProcessedFieldOrder)}

\* ------------------------------------------------------- datetime (parsing)

\* calendar rule used by datetime: leap years
IsLeap(y) == (y % 4 = 0) /\ ((y % 100 # 0) \/ (y % 400 = 0))

DaysInMonth(y, m) ==
    IF m = 2 THEN (IF IsLeap(y) THEN 29 ELSE 28)
    ELSE IF m \in {4, 6, 9, 11} THEN 30 ELSE 31

\* A text value (Python str) holding the digit groups of a timestamp.
Str(groups) == [kind |-> "str", groups |-> groups]

\* Group i of a timestamp text, or dflt when the text stops before it.
Group(text, i, dflt) == IF Len(text) >= i THEN text[i] ELSE dflt

\* datetime.fromisoformat: a structured date-time, or a ValueError.  A date
\* alone is midnight; the fields are range-checked; an offset is kept as the
\* value's tzinfo and the clock fields stay as written.
fromisoformat(str) ==
    LET text == str.groups IN
    IF Len(text) < 3 \/ Len(text) > 7
    THEN [kind |-> "ValueError", msg |-> "Invalid isoformat string"]
    ELSE LET y  == text[1]
             mo == text[2]
             d  == text[3]
             h  == Group(text, 4, 0)
             mi == Group(text, 5, 0)
             s  == Group(text, 6, 0)
         IN  IF /\ y \in 1..9999
                /\ mo \in 1..12
                /\ d >= 1
                /\ d <= DaysInMonth(y, mo)
                /\ h \in 0..23
                /\ mi \in 0..59
                /\ s \in 0..59
                /\ (Len(text) = 7 => text[7] \in -23..23)
             THEN [kind |-> "datetime", year |-> y, month |-> mo, day |-> d,
                   hour |-> h, minute |-> mi, second |-> s,
                   tzinfo |-> IF Len(text) = 7
                              THEN [kind |-> "offset", hours |-> text[7]]
                              ELSE None]
             ELSE [kind |-> "ValueError", msg |-> "Invalid isoformat string"]

\* ------------------------------------------------------ datetime (weekday)

\* Days before January 1st of year y.
DaysBeforeYear(y) ==
    LET p == y - 1 IN p * 365 + (p \div 4) - (p \div 100) + (p \div 400)

RECURSIVE DaysBeforeMonth(_, _)
\* Days of year y before the first day of month m.
DaysBeforeMonth(y, m) ==
    IF m <= 1 THEN 0 ELSE DaysBeforeMonth(y, m - 1) + DaysInMonth(y, m - 1)

\* date.toordinal: 0001-01-01 is day 1.
toordinal(dt) == DaysBeforeYear(dt.year) + DaysBeforeMonth(dt.year, dt.month) + dt.day

\* A convention mistake: isoweekday numbering shifted (Sunday = 0).
weekdaySundayZero(dt) == toordinal(dt) % 7

\* datetime.weekday(): Monday = 0 ... Sunday = 6.
weekday(dt) == (toordinal(dt) + 6) % 7

\* ------------------------------------------------- request body validation

\* The framework builds the handler's argument `request: InputData` from the
\* JSON body before the handler runs: every field of InputData is required,
\* and trans_date_trans_time is declared `datetime`, so its text is parsed
\* here.  A body that does not validate is answered 422 and the handler is
\* not entered.
ValidateInputData(b) ==
    IF ~(InputFields \subseteq DOMAIN b)
    THEN [kind |-> "RequestValidationError", loc |-> InputFields \ DOMAIN b]
    ELSE LET dt == fromisoformat(b.trans_date_trans_time)
         IN  IF dt.kind # "datetime"
             THEN [kind |-> "RequestValidationError",
                   loc |-> {"trans_date_trans_time"}]
             ELSE [kind |-> "InputData",
                   data |-> [f \in InputFields |->
                                IF f = "trans_date_trans_time" THEN dt ELSE b[f]]]

\* ------------------------------------------------------- helper functions

\* transform_input: parse a text timestamp (ValueError when it does not
\* parse), use a structured one directly, decompose it, copy the rest.
transform_input(input_data) ==
    LET ts == input_data.trans_date_trans_time
        trans_datetime == IF ts.kind = "str" THEN fromisoformat(ts) ELSE ts
    IN  IF trans_datetime.kind = "ValueError"
        THEN [kind |-> "ValueError", msg |-> "Invalid datetime format"]
        ELSE [kind |-> "ProcessedInputData",
              data |-> [f \in ProcessedFields |->
                          CASE f = "trans_hour"    -> trans_datetime.hour
                            [] f = "trans_day"     -> trans_datetime.day
                            [] f = "trans_month"   -> trans_datetime.month
                            [] f = "trans_weekday" -> weekday(trans_datetime)
                            [] OTHER               -> input_data[f]]]

\* ------------------------------------------------------ feature reordering

Names(order) == {order[i] : i \in 1..Len(order)}

\* A reorder that skips the names it does not find (reindex-like).
SelectColumnsSkipMissing(features_dict, feature_order) ==
    LET kept == SelectSeq(feature_order, LAMBDA n : n \in DOMAIN features_dict)
    IN  [kind |-> "DataFrame", columns |-> kept,
         row |-> [i \in 1..Len(kept) |-> features_dict[kept[i]]]]

\* A reorder that keeps the record's own layout and ignores the order asked.
SelectColumnsCanonical(features_dict, feature_order) ==
    LET missing == Names(feature_order) \ DOMAIN features_dict
        kept == SelectSeq(ProcessedFieldOrder, LAMBDA n : n \in Names(feature_order))
    IN  IF missing # {}
        THEN [kind |-> "KeyError", names |-> missing]
        ELSE [kind |-> "DataFrame", columns |-> kept,
              row |-> [i \in 1..Len(kept) |-> features_dict[kept[i]]]]

\* pd.DataFrame([features_dict])[feature_order]: the one-row frame whose
\* columns are feature_order, or a KeyError naming the labels not found.
SelectColumns(features_dict, feature_order) ==
    LET missing == Names(feature_order) \ DOMAIN features_dict
    IN  IF missing # {}
        THEN [kind |-> "KeyError", names |-> missing]
        ELSE [kind |-> "DataFrame", columns |-> feature_order,
              row |-> [i \in 1..Len(feature_order) |->
                         features_dict[feature_order[i]]]]

\* ------------------------------------------------------- response shaping

\* array[i] of Python (0-based): the element, or an IndexError.
Index(array, i) ==
    IF i + 1 \in 1..Len(array)
    THEN [kind |-> "value", value |-> array[i + 1]]
    ELSE [kind |-> "IndexError", msg |-> "index out of bounds"]

\* A response whose label is the more probable class.
BuildResponseArgmax(prediction, probabilities) ==
    IF Len(probabilities) < 2
    THEN [kind |-> "IndexError", msg |-> "index out of bounds"]
    ELSE [kind |-> "PredictionResponse",
          prediction |-> IF probabilities[2] > probabilities[1]
                         THEN "fraud" ELSE "not_fraud",
          proba |-> [not_fraud |-> probabilities[1], fraud |-> probabilities[2]]]

\* A response whose two probabilities are keyed the wrong way round.
BuildResponseSwapped(prediction, probabilities) ==
    IF Len(probabilities) < 2
    THEN [kind |-> "IndexError", msg |-> "index out of bounds"]
    ELSE [kind |-> "PredictionResponse",
          prediction |-> IF prediction = 1 THEN "fraud" ELSE "not_fraud",
          proba |-> [not_fraud |-> probabilities[2], fraud |-> probabilities[1]]]

\* prediction_str and PredictionResponse(...): "fraud" when the raw label is
\* 1, the probabilities keyed by position; IndexError when the probability
\* row has no element 0 or 1.
BuildResponse(prediction, probabilities) ==
    LET p0 == Index(probabilities, 0)
        p1 == Index(probabilities, 1)
    IN  IF p0.kind = "IndexError" THEN p0
        ELSE IF p1.kind = "IndexError" THEN p1
        ELSE [kind |-> "PredictionResponse",
              prediction |-> IF prediction = 1 THEN "fraud" ELSE "not_fraud",
              proba |-> [not_fraud |-> p0.value, fraud |-> p1.value]]

\* -------------------------------------------------------- HTTP responses

Ok(content) == [status |-> HTTP_200_OK, content |-> content]

HTTPException(status_code, detail, cause) ==
    [status |-> status_code, content |-> [detail |-> detail, cause |-> cause]]

\* The three except clauses of predict, tried in order: KeyError,
\* ValueError, then any other Exception; each answers 400.
HandleException(e) ==
    IF e.kind = "KeyError"
    THEN HTTPException(HTTP_400_BAD_REQUEST, "Missing feature in processed data", e)
    ELSE IF e.kind = "ValueError"
    THEN HTTPException(HTTP_400_BAD_REQUEST, "Invalid value", e)
    ELSE HTTPException(HTTP_400_BAD_REQUEST, "Error processing prediction", e)

\* ------------------------------------------------------------------ inputs

\* The documented example transaction (basemodel.py, InputData docstring).
WalmartBody ==
    [merchant |-> "Walmart", category |-> "groceries", city |-> "Springfield",
     state |-> "IL", job |-> "Engineer", amt |-> 120, lat |-> 397817,
     long |-> -896501, city_pop |-> 116250,
     trans_date_trans_time |-> Str(<<2025, 12, 4, 14, 30, 0>>)]

\* A second transaction, on a leap day, a minute before midnight, with offset.
AustinBody ==
    [merchant |-> "Amazon", category |-> "shopping", city |-> "Austin",
     state |-> "TX", job |-> "Nurse", amt |-> 5, lat |-> 302672,
     long |-> -977431, city_pop |-> 964254,
     trans_date_trans_time |-> Str(<<2024, 2, 29, 23, 59, 59, -6>>)]

WithTimestamp(b, groups) == [b EXCEPT !.trans_date_trans_time = Str(groups)]

Without(b, field) == [f \in (DOMAIN b) \ {field} |-> b[f]]

\* Bodies of the pipeline specification: valid ones, one with a field
\* missing, one whose timestamp is no date-time, one with a day out of range.
Bodies ==
    {WalmartBody, AustinBody, Without(WalmartBody, "amt"),
     WithTimestamp(WalmartBody, <<>>),
     WithTimestamp(AustinBody, <<2025, 2, 29, 10, 0, 0>>)}

SmallBodies == {WalmartBody, WithTimestamp(WalmartBody, <<>>)}

\* Timestamp texts of the transformer specification: full date-times, dates
\* alone, date-times with an offset, and texts that do not parse.
TimestampTexts ==
    {<<y, mo, d, h, 30, 0>> :
        y \in {2024, 2025}, mo \in {0, 1, 2, 12, 13}, d \in {0, 4, 28, 29, 31, 32},
        h \in {0, 14, 23, 24}}
    \cup {<<y, mo, d>> : y \in {1900, 2000, 2025}, mo \in {2, 3}, d \in {1, 29}}
    \cup {<<2025, 12, 4, 14, 30, 0, off>> : off \in {-8, 0, 5}}
    \cup {<<>>, <<2025, 12>>, <<2025, 12, 4, 14, 60, 0>>, <<2025, 12, 4, 14, 30, 60>>}

TimestampBodies == {WithTimestamp(WalmartBody, t) : t \in TimestampTexts}

Reverse(seq) == [i \in 1..Len(seq) |-> seq[Len(seq) + 1 - i]]

RECURSIVE SeqsUpTo(_, _)
\* All sequences over S of length at most n.
SeqsUpTo(S, n) ==
    IF n = 0 THEN {<<>>}
    ELSE LET shorter == SeqsUpTo(S, n - 1)
         IN  shorter \cup {Append(q, x) : q \in shorter, x \in S}

\* Two FeatureRecord fields and one name FeatureRecord does not have.
FeatureNameSample == {"amt", "trans_weekday", "card_number"}

\* Feature orders a loaded model may declare: the canonical layout, a
\* permutation of it, one with a foreign name, and every short order over
\* the sample (subsets, repetitions, foreign names).
FeatureOrders ==
    {ProcessedFieldOrder, Reverse(ProcessedFieldOrder),
     Append(ProcessedFieldOrder, "card_number")}
    \cup SeqsUpTo(FeatureNameSample, MaxOrderLen)

Return(v) == [kind |-> "return", value |-> v]
Raise(k) == [kind |-> "raise", exc |-> [kind |-> k, msg |-> "from model"]]

\* What model.predict does: an array of one raw label, or an exception.
PredictBehaviours ==
    {Return(<<0>>), Return(<<1>>), Return(<<2>>),
     Raise("ValueError"), Raise("KeyError"), Raise("RuntimeError")}

\* What model.predict_proba does: one row of probabilities, or an exception.
PredictProbaBehaviours ==
    {Return(<<(<<92, 8>>)>>), Return(<<(<<15, 85>>)>>), Return(<<(<<100>>)>>),
     Return(<<(<<30, 30, 40>>)>>), Raise("ValueError"), Raise("RuntimeError")}

Estimator(order, pr, pp) ==
    [kind |-> "model", feature_names_in_ |-> order, predict |-> pr,
     predict_proba |-> pp]

\* joblib.load(...) at import: a fitted estimator, one fitted without feature
\* names (no feature_names_in_ attribute), or None when loading failed.
ModelHandles ==
    {Estimator([kind |-> "ndarray", value |-> o], pr, pp) :
        o \in FeatureOrders, pr \in PredictBehaviours, pp \in PredictProbaBehaviours}
    \cup {Estimator([kind |-> "AttributeError", msg |-> "feature_names_in_"],
                     Return(<<0>>), Return(<<(<<92, 8>>)>>))}
    \cup {None}

SmallModelHandles ==
    {Estimator([kind |-> "ndarray", value |-> ProcessedFieldOrder],
               Return(<<1>>), Return(<<(<<92, 8>>)>>)),
     Estimator([kind |-> "ndarray", value |-> <<"amt", "card_number">>],
               Return(<<0>>), Return(<<(<<92, 8>>)>>)),
     Estimator([kind |-> "ndarray", value |-> <<"trans_weekday", "amt">>],
               Raise("ValueError"), Return(<<(<<15, 85>>)>>)),
     None}

TransformModelHandles ==
    {Estimator([kind |-> "ndarray", value |-> ProcessedFieldOrder],
               Return(<<0>>), Return(<<(<<92, 8>>)>>)),
     None}

\* ------------------------------------------------------------------- state

Clients == 1..NumClients

VARIABLES
    model,           \* api.model: the estimator loaded at import, or None
    pc,              \* per client: where its current request stands
    route,           \* per client: the endpoint of its current request
    body,            \* per client: the JSON body of its current request
    request,         \* per client: predict's argument (InputData)
    processed_data,  \* per client: predict's local processed_data
    feature_order,   \* per client: predict's local feature_order
    features_df,     \* per client: predict's local features_df
    prediction,      \* per client: predict's local prediction
    probabilities,   \* per client: predict's local probabilities
    calls,           \* per client: the uses of the model made by the request
    response         \* per client: the response sent for the request

locals == <<request, processed_data, feature_order, features_df, prediction,
            probabilities>>

vars == <<model, pc, route, body, request, processed_data, feature_order,
          features_df, prediction, probabilities, calls, response>>

Value(v) == [kind |-> "value", value |-> v]

InitClients ==
    /\ pc = [p \in Clients |-> "idle"]
    /\ route = [p \in Clients |-> "none"]
    /\ body = [p \in Clients |-> None]
    /\ request = [p \in Clients |-> None]
    /\ processed_data = [p \in Clients |-> None]
    /\ feature_order = [p \in Clients |-> None]
    /\ features_df = [p \in Clients |-> None]
    /\ prediction = [p \in Clients |-> None]
    /\ probabilities = [p \in Clients |-> None]
    /\ calls = [p \in Clients |-> <<>>]
    /\ response = [p \in Clients |-> None]

\* A client takes up a new request: the locals of its last call are gone.
NewRequest(p, r, b, req) ==
    /\ pc[p] \in {"idle", "done"}
    /\ route' = [route EXCEPT ![p] = r]
    /\ body' = [body EXCEPT ![p] = b]
    /\ request' = [request EXCEPT ![p] = req]
    /\ processed_data' = [processed_data EXCEPT ![p] = None]
    /\ feature_order' = [feature_order EXCEPT ![p] = None]
    /\ features_df' = [features_df EXCEPT ![p] = None]
    /\ prediction' = [prediction EXCEPT ![p] = None]
    /\ probabilities' = [probabilities EXCEPT ![p] = None]
    /\ calls' = [calls EXCEPT ![p] = <<>>]

\* The request of client p ends with response r.
Finish(p, r) ==
    /\ response' = [response EXCEPT ![p] = r]
    /\ pc' = [pc EXCEPT ![p] = "done"]

Goto(p, label) ==
    /\ pc' = [pc EXCEPT ![p] = label]
    /\ UNCHANGED response

\* -------------------------------------------------------------- operations

\* GET /: static service metadata.
Root(p) ==
    /\ NewRequest(p, "/", None, None)
    /\ Finish(p, Ok([name |-> "Fraud Detection API", version |-> "1.0.0"]))
    /\ UNCHANGED model

\* A health check that drops the model it finds.
HealthUnloading(p) ==
    /\ NewRequest(p, "/api/health", None, None)
    /\ Finish(p, Ok([status |-> "healthy", model_loaded |-> model # None]))
    /\ model' = None

\* GET /api/health: "healthy", and whether a model is loaded.
Health(p) ==
    /\ NewRequest(p, "/api/health", None, None)
    /\ Finish(p, Ok([status |-> "healthy", model_loaded |-> model # None]))
    /\ UNCHANGED model

\* POST /api/predict arrives: the body is validated into InputData; a body
\* that fails validation is answered 422 without entering predict.
PostPredict(p, b) ==
    /\ LET v == ValidateInputData(b)
       IN  IF v.kind = "InputData"
           THEN /\ NewRequest(p, "/api/predict", b, v)
                /\ Goto(p, "check_model")
           ELSE /\ NewRequest(p, "/api/predict", b, None)
                /\ Finish(p, HTTPException(HTTP_422_UNPROCESSABLE_ENTITY,
                                           "validation error", v))
    /\ UNCHANGED model

\* A predict that goes on without a model.
CheckModelSkipped(p) ==
    /\ pc[p] = "check_model"
    /\ Goto(p, "transform")
    /\ UNCHANGED <<model, route, body, locals, calls>>

\* predict, "Verify model is loaded": 503 when model is None.
CheckModel(p) ==
    /\ pc[p] = "check_model"
    /\ IF model = None
       THEN Finish(p, HTTPException(HTTP_503_SERVICE_UNAVAILABLE,
                                    "Model not loaded. Please check server logs.",
                                    None))
       ELSE Goto(p, "transform")
    /\ UNCHANGED <<model, route, body, locals, calls>>

\* predict: processed_data = transform_input(request).
Transform(p) ==
    /\ pc[p] = "transform"
    /\ LET r == transform_input(request[p].data)
       IN  IF r.kind = "ProcessedInputData"
           THEN /\ processed_data' = [processed_data EXCEPT ![p] = r]
                /\ Goto(p, "feature_order")
           ELSE /\ Finish(p, HandleException(r))
                /\ UNCHANGED processed_data
    /\ UNCHANGED <<model, route, body, request, feature_order, features_df,
                   prediction, probabilities, calls>>

\* predict: feature_order = model.feature_names_in_.tolist().
FeatureOrder(p) ==
    /\ pc[p] = "feature_order"
    /\ calls' = [calls EXCEPT ![p] = Append(@, [op |-> "feature_names_in_"])]
    /\ LET names == IF model = None
                    THEN [kind |-> "AttributeError", msg |-> "NoneType"]
                    ELSE model.feature_names_in_
       IN  IF names.kind = "ndarray"
           THEN /\ feature_order' = [feature_order EXCEPT ![p] = Value(names.value)]
                /\ Goto(p, "reorder")
           ELSE /\ Finish(p, HandleException(names))
                /\ UNCHANGED feature_order
    /\ UNCHANGED <<model, route, body, request, processed_data, features_df,
                   prediction, probabilities>>

\* predict: features_df = pd.DataFrame([features_dict])[feature_order].
Reorder(p) ==
    /\ pc[p] = "reorder"
    /\ LET df == SelectColumns(processed_data[p].data, feature_order[p].value)
       IN  IF df.kind = "DataFrame"
           THEN /\ features_df' = [features_df EXCEPT ![p] = df]
                /\ Goto(p, "predict")
           ELSE /\ Finish(p, HandleException(df))
                /\ UNCHANGED features_df
    /\ UNCHANGED <<model, route, body, request, processed_data, feature_order,
                   prediction, probabilities, calls>>

\* The outcome of calling method m of the loaded model.
Invoke(m) ==
    IF model = None THEN Raise("AttributeError")
    ELSE IF m = "predict" THEN model.predict ELSE model.predict_proba

\* predict: prediction = model.predict(features_df)[0].
CallPredict(p) ==
    /\ pc[p] = "predict"
    /\ LET out == Invoke("predict")
           first == IF out.kind = "return" THEN Index(out.value, 0) ELSE out.exc
       IN  /\ calls' = [calls EXCEPT ![p] =
                          Append(@, [op |-> "predict", arg |-> features_df[p],
                                     outcome |-> out.kind])]
           /\ IF first.kind = "value"
              THEN /\ prediction' = [prediction EXCEPT ![p] = first]
                   /\ Goto(p, "predict_proba")
              ELSE /\ Finish(p, HandleException(first))
                   /\ UNCHANGED prediction
    /\ UNCHANGED <<model, route, body, request, processed_data, feature_order,
                   features_df, probabilities>>

\* A second call made on a vector rebuilt in the record's own layout.
CallPredictProbaRederived(p) ==
    /\ pc[p] = "predict_proba"
    /\ LET out == Invoke("predict_proba")
           first == IF out.kind = "return" THEN Index(out.value, 0) ELSE out.exc
           again == SelectColumnsCanonical(processed_data[p].data,
                                           feature_order[p].value)
       IN  /\ calls' = [calls EXCEPT ![p] =
                          Append(@, [op |-> "predict_proba", arg |-> again,
                                     outcome |-> out.kind])]
           /\ IF first.kind = "value"
              THEN /\ probabilities' = [probabilities EXCEPT ![p] = first]
                   /\ Goto(p, "respond")
              ELSE /\ Finish(p, HandleException(first))
                   /\ UNCHANGED probabilities
    /\ UNCHANGED <<model, route, body, request, processed_data, feature_order,
                   features_df, prediction>>

\* predict: probabilities = model.predict_proba(features_df)[0].
CallPredictProba(p) ==
    /\ pc[p] = "predict_proba"
    /\ LET out == Invoke("predict_proba")
           first == IF out.kind = "return" THEN Index(out.value, 0) ELSE out.exc
       IN  /\ calls' = [calls EXCEPT ![p] =
                          Append(@, [op |-> "predict_proba", arg |-> features_df[p],
                                     outcome |-> out.kind])]
           /\ IF first.kind = "value"
              THEN /\ probabilities' = [probabilities EXCEPT ![p] = first]
                   /\ Goto(p, "respond")
              ELSE /\ Finish(p, HandleException(first))
                   /\ UNCHANGED probabilities
    /\ UNCHANGED <<model, route, body, request, processed_data, feature_order,
                   features_df, prediction>>

\* predict: prediction_str and the PredictionResponse returned.
Respond(p) ==
    /\ pc[p] = "respond"
    /\ LET r == BuildResponse(prediction[p].value, probabilities[p].value)
       IN  IF r.kind = "PredictionResponse"
           THEN Finish(p, Ok(r))
           ELSE Finish(p, HandleException(r))
    /\ UNCHANGED <<model, route, body, locals, calls>>

\* ---------------------------------------------------------- specifications

\* One handler step of client p.
Handler(p) ==
    \/ CheckModel(p)
    \/ Transform(p)
    \/ FeatureOrder(p)
    \/ Reorder(p)
    \/ CallPredict(p)
    \/ CallPredictProba(p)
    \/ Respond(p)

\* The request pipeline: one client, every model handle, a few bodies.
Init == InitClients /\ model \in ModelHandles

Next ==
    \/ Root(1)
    \/ Health(1)
    \/ \E b \in Bodies : PostPredict(1, b)
    \/ Handler(1)

Spec == Init /\ [][Next]_vars

\* The transformer: one client, many timestamps.
InitTransform == InitClients /\ model \in TransformModelHandles

NextTransform ==
    \/ Root(1)
    \/ Health(1)
    \/ \E b \in TimestampBodies : PostPredict(1, b)
    \/ Handler(1)

SpecTransform == InitTransform /\ [][NextTransform]_vars

\* Concurrent requests: every client, interleaved step by step.
InitConc == InitClients /\ model \in SmallModelHandles

NextConc ==
    \E p \in Clients :
        \/ Root(p)
        \/ Health(p)
        \/ \E b \in SmallBodies : PostPredict(p, b)
        \/ Handler(p)

SpecConc == InitConc /\ [][NextConc]_vars

\* ------------------------------------------------------------- properties

\* Client p has finished a request for POST /api/predict.
PredictDone(p) == pc[p] = "done" /\ route[p] = "/api/predict"

\* Client p's request entered the handler predict (its body validated).
Entered(p) == route[p] = "/api/predict" /\ request[p] # None

\* The error kind a response stands for.
ErrorKind(r) ==
    CASE r.status = HTTP_200_OK -> "Success"
      [] r.status = HTTP_503_SERVICE_UNAVAILABLE -> "ServiceUnavailable"
      [] r.status = HTTP_422_UNPROCESSABLE_ENTITY -> "SchemaValidation"
      [] r.content.detail = "Missing feature in processed data" -> "SchemaMismatch"
      [] r.content.detail = "Invalid value" -> "InvalidInput"
      [] OTHER -> "PredictionFailed"

\* The calls of predict and predict_proba among the uses of the model.
ModelCalls(p) ==
    SelectSeq(calls[p], LAMBDA c : c.op \in {"predict", "predict_proba"})

ModelPresent == model # None

HasFeatureOrder == ModelPresent /\ model.feature_names_in_.kind = "ndarray"

\* C1: a request handled by predict while the model is None ends with 503
\* ServiceUnavailable, and nothing was transformed, looked up, built or
\* called for it at any point of its handling.
C1_AbsentModelFailsFast ==
    \A p \in Clients :
        (Entered(p) /\ ~ModelPresent) =>
            /\ pc[p] \in {"check_model", "done"}
            /\ processed_data[p] = None
            /\ feature_order[p] = None
            /\ features_df[p] = None
            /\ calls[p] = <<>>
            /\ pc[p] = "done" =>
                   /\ response[p].status = HTTP_503_SERVICE_UNAVAILABLE
                   /\ ErrorKind(response[p]) = "ServiceUnavailable"

C1_Witness ==
    \E p \in Clients :
        /\ Entered(p) /\ ~ModelPresent /\ pc[p] = "done"
        /\ response[p].status = HTTP_503_SERVICE_UNAVAILABLE

\* C2: when the model's feature order names a field FeatureRecord does not
\* have, a handled request ends with 400 SchemaMismatch naming exactly the
\* missing fields, and neither predict nor predict_proba was called.
C2_SchemaMismatch ==
    \A p \in Clients :
        (Entered(p) /\ HasFeatureOrder
            /\ ~(Names(model.feature_names_in_.value) \subseteq ProcessedFields)) =>
            /\ ModelCalls(p) = <<>>
            /\ pc[p] \in {"check_model", "transform", "feature_order", "reorder", "done"}
            /\ pc[p] = "done" =>
                   /\ response[p].status = HTTP_400_BAD_REQUEST
                   /\ ErrorKind(response[p]) = "SchemaMismatch"
                   /\ response[p].content.cause.names # {}
                   /\ response[p].content.cause.names =
                          Names(model.feature_names_in_.value) \ ProcessedFields

C2_Witness ==
    \E p \in Clients :
        /\ PredictDone(p) /\ Entered(p) /\ HasFeatureOrder
        /\ model.feature_names_in_.value = <<"amt", "card_number">>
        /\ ErrorKind(response[p]) = "SchemaMismatch"
        /\ response[p].content.cause.names = {"card_number"}

C5_VectorFollowsFeatureOrder ==
    \A p \in Clients :
        /\ \A k \in 1..Len(ModelCalls(p)) :
              LET row == ModelCalls(p)[k].arg.row
                  order == model.feature_names_in_.value
              IN  /\ Len(row) = Len(order)
                  /\ ModelCalls(p)[k].arg.columns = order
                  /\ \A i \in 1..Len(order) :
                        row[i] = processed_data[p].data[order[i]]
        /\ (Entered(p) /\ HasFeatureOrder
               /\ Names(model.feature_names_in_.value) \subseteq ProcessedFields
               /\ pc[p] = "done") => Len(ModelCalls(p)) >= 1

\* A permutation of the canonical layout reached the model.
C5_Witness ==
    \E p \in Clients :
        /\ Len(ModelCalls(p)) = 2
        /\ model.feature_names_in_.value = Reverse(ProcessedFieldOrder)
        /\ ModelCalls(p)[1].arg.row[1] = processed_data[p].data.trans_weekday
        /\ ModelCalls(p)[1].arg.row[13] = "Walmart"

\* Some call of predict or predict_proba made for client p raised.
ModelRaised(p) ==
    \E k \in 1..Len(ModelCalls(p)) : ModelCalls(p)[k].outcome = "raise"

\* C6: with a model present, every failure of a handled request is answered
\* 400, and a failure raised by the model's predict or predict_proba is
\* reported as PredictionFailed whatever the type of the exception.
C6_FailuresUniform ==
    \A p \in Clients :
        (PredictDone(p) /\ Entered(p) /\ ModelPresent
            /\ response[p].status # HTTP_200_OK) =>
            /\ response[p].status = HTTP_400_BAD_REQUEST
            /\ ModelRaised(p) => ErrorKind(response[p]) = "PredictionFailed"

\* The timestamp text of body b does not parse as a date-time.
Unparseable(b) ==
    /\ "trans_date_trans_time" \in DOMAIN b
    /\ fromisoformat(b.trans_date_trans_time).kind = "ValueError"

\* C7: a transaction with all its fields whose timestamp text does not parse
\* is answered InvalidInput, not a schema-validation failure, and no
\* FeatureRecord is produced or handed to the model.
C7_UnparseableIsInvalidInput ==
    \A p \in Clients :
        (PredictDone(p) /\ InputFields \subseteq DOMAIN body[p]
            /\ Unparseable(body[p])) =>
            /\ ErrorKind(response[p]) = "InvalidInput"
            /\ processed_data[p] = None
            /\ ModelCalls(p) = <<>>

\* Day of the week by Sakamoto's rule, renumbered to Monday = 0.
CalendarWeekday(y, m, d) ==
    LET t == <<0, 3, 2, 5, 0, 3, 5, 1, 4, 6, 2, 4>>
        yy == IF m < 3 THEN y - 1 ELSE y
        sunday0 == (yy + (yy \div 4) - (yy \div 100) + (yy \div 400) + t[m] + d) % 7
    IN  (sunday0 + 6) % 7

\* C8: for every valid transaction handled with a model present, transform
\* yields a FeatureRecord whose hour, day, month and weekday (Monday = 0) are
\* those written in the timestamp, with no timezone conversion, within their
\* ranges, and whose nine other fields are the input's.
C8_CalendarDecomposition ==
    \A p \in Clients :
        /\ (Entered(p) /\ ModelPresent /\ pc[p] \notin {"check_model", "transform"})
              => processed_data[p] # None
        /\ processed_data[p] # None =>
              LET d == processed_data[p].data
                  g == body[p].trans_date_trans_time.groups
              IN  /\ processed_data[p].kind = "ProcessedInputData"
                  /\ DOMAIN d = ProcessedFields
                  /\ d.trans_hour = Group(g, 4, 0) /\ d.trans_hour \in 0..23
                  /\ d.trans_day = g[3] /\ d.trans_day \in 1..31
                  /\ d.trans_month = g[2] /\ d.trans_month \in 1..12
                  /\ d.trans_weekday = CalendarWeekday(g[1], g[2], g[3])
                  /\ d.trans_weekday \in 0..6
                  /\ \A f \in CopiedFields : d[f] = body[p][f]

\* 2025-12-04T14:30:00 gives hour 14, day 4, month 12, weekday 3.
C8_Witness ==
    \E p \in Clients :
        /\ processed_data[p] # None
        /\ body[p].trans_date_trans_time.groups = <<2025, 12, 4, 14, 30, 0>>
        /\ processed_data[p].data.trans_hour = 14
        /\ processed_data[p].data.trans_day = 4
        /\ processed_data[p].data.trans_month = 12
        /\ processed_data[p].data.trans_weekday = 3
        /\ processed_data[p].data.amt = 120

\* C9: within one request predict and predict_proba are each called at most
\* once, predict first, predict_proba only after predict returned, and both
\* with the same vector.
C9_CallOrder ==
    \A p \in Clients :
        LET mc == ModelCalls(p)
        IN  /\ Len(mc) <= 2
            /\ Len(mc) >= 1 => mc[1].op = "predict"
            /\ Len(mc) = 2 =>
                   /\ mc[2].op = "predict_proba"
                   /\ mc[1].outcome = "return"
                   /\ mc[2].arg = mc[1].arg
            /\ (pc[p] = "done" /\ Len(mc) >= 1 /\ mc[1].outcome = "raise")
                   => Len(mc) = 1

\* Both calls made, on a vector that is not in the canonical layout.
C9_Witness ==
    \E p \in Clients :
        /\ Len(ModelCalls(p)) = 2
        /\ ModelCalls(p)[2].arg.columns = <<"trans_weekday", "amt">>

\* predict raised and the request ended without a call of predict_proba.
C9_WitnessRaised ==
    \E p \in Clients :
        /\ pc[p] = "done" /\ Len(ModelCalls(p)) = 1
        /\ ModelCalls(p)[1].outcome = "raise"

\* The response of a request handled alone, from start to end, with model m.
Alone(m, r, b) ==
    IF r = "/" THEN Ok([name |-> "Fraud Detection API", version |-> "1.0.0"])
    ELSE IF r = "/api/health"
    THEN Ok([status |-> "healthy", model_loaded |-> m # None])
    ELSE
    LET v == ValidateInputData(b) IN
    IF v.kind # "InputData"
    THEN HTTPException(HTTP_422_UNPROCESSABLE_ENTITY, "validation error", v)
    ELSE IF m = None
    THEN HTTPException(HTTP_503_SERVICE_UNAVAILABLE,
                       "Model not loaded. Please check server logs.", None)
    ELSE
    LET fr == transform_input(v.data) IN
    IF fr.kind # "ProcessedInputData" THEN HandleException(fr)
    ELSE IF m.feature_names_in_.kind # "ndarray"
    THEN HandleException(m.feature_names_in_)
    ELSE
    LET df == SelectColumns(fr.data, m.feature_names_in_.value) IN
    IF df.kind # "DataFrame" THEN HandleException(df)
    ELSE IF m.predict.kind = "raise" THEN HandleException(m.predict.exc)
    ELSE IF m.predict_proba.kind = "raise" THEN HandleException(m.predict_proba.exc)
    ELSE
    LET r2 == BuildResponse(m.predict.value[1], m.predict_proba.value[1]) IN
    IF r2.kind = "PredictionResponse" THEN Ok(r2) ELSE HandleException(r2)

\* Every finished request has the response it would have had alone.
IsolatedOutcomes ==
    \A p \in Clients :
        /\ pc[p] = "done" => response[p] = Alone(model, route[p], body[p])
        /\ \A q \in Clients :
              (pc[p] = "done" /\ pc[q] = "done" /\ route[p] = route[q]
                  /\ body[p] = body[q]) => response[p] = response[q]

\* A step changes the request state of one client at most.
OwnStateOnly ==
    \E p \in Clients :
        \A q \in Clients \ {p} :
            /\ pc'[q] = pc[q] /\ route'[q] = route[q] /\ body'[q] = body[q]
            /\ response'[q] = response[q] /\ calls'[q] = calls[q]
            /\ request'[q] = request[q] /\ processed_data'[q] = processed_data[q]
            /\ feature_order'[q] = feature_order[q]
            /\ features_df'[q] = features_df[q] /\ prediction'[q] = prediction[q]
            /\ probabilities'[q] = probabilities[q]

\* C10: no request operation modifies the model handle or state of another
\* request, and under any interleaving every request ends with the response
\* it would have had alone; equal requests get equal responses.
C10_SharedReadOnly ==
    /\ [][model' = model /\ OwnStateOnly]_vars
    /\ []IsolatedOutcomes

\* Two requests in flight at once, one finished with a prediction while the
\* other is between its two model calls.
C10_Witness ==
    \E p, q \in Clients :
        /\ p # q
        /\ PredictDone(p) /\ response[p].status = HTTP_200_OK
        /\ pc[q] = "predict_proba"
        /\ body[p] = body[q]

====
